---- MODULE Spec2Model ----
(***************************************************************************)
(* wit-abi: the Markdown renderer of src/wit-abi/src/main.rs.              *)
(*                                                                         *)
(* A render pass (Options::render_file) builds a fresh Markdown value and  *)
(* runs Markdown::process over one Interface: one section per named type   *)
(* in declaration order, then one block per function.  Every method of     *)
(* Markdown takes &mut self; it is modelled as an operator from the        *)
(* Markdown value before the call to the Markdown value after it.  A Rust  *)
(* panic is the field panic of that value: once set, every later           *)
(* statement is skipped (the stack unwinds).                               *)
(*                                                                         *)
(* Text.  A Rust String that the program only copies is a TLA+ string; a   *)
(* String it converts (a name, through to_snake_case; a documentation      *)
(* block, through lines() and trim()) is a sequence of one-character       *)
(* strings.  The output buffer src is the sequence of the pieces pushed    *)
(* on it, in order:                                                        *)
(*   [k |-> "lit", s]                a literal of the source text          *)
(*   [k |-> "code", s]               a literal between two backticks       *)
(*   [k |-> "text", n]               a name or documentation line          *)
(*   [k |-> "codename", n]           a name between two backticks          *)
(*   [k |-> "num", v]                a number formatted with {}            *)
(*   [k |-> "anchor", href, name]    <a href="HREF" name="NAME"></a>       *)
(*   [k |-> "link", text, target]    the Markdown link print_ty writes     *)
(*   [k |-> "entrylink", text, target]  the Markdown link of a list entry  *)
(***************************************************************************)
EXTENDS Naturals, Sequences, FiniteSets

VARIABLES iface, oracle, md, pc, tyIdx, fnIdx, pass, outputs

vars == <<iface, oracle, md, pc, tyIdx, fnIdx, pass, outputs>>

(***************************************************************************)
(* Bounds of the model.                                                    *)
(***************************************************************************)
\* longest type table of an input Interface
MaxTypes == 2
\* most functions of an input Interface
MaxFuncs == 2

\* Recursion of print_ty deeper than any chain through distinct type
\* definitions can go is a cycle of anonymous types: the thread's stack
\* overflows.
StackLimit == MaxTypes + 2

(***************************************************************************)
(* Option<T>                                                               *)
(***************************************************************************)
None == [some |-> FALSE]
Some(v) == [some |-> TRUE, v |-> v]

(***************************************************************************)
(* Characters and heck's to_snake_case.                                    *)
(***************************************************************************)
LowerSeq == <<"a","b","c","d","e","f","g","h","i","j","k","l","m",
              "n","o","p","q","r","s","t","u","v","w","x","y","z">>
UpperSeq == <<"A","B","C","D","E","F","G","H","I","J","K","L","M",
              "N","O","P","Q","R","S","T","U","V","W","X","Y","Z">>
Digits == {"0","1","2","3","4","5","6","7","8","9"}

Lowercase == {LowerSeq[i] : i \in 1..Len(LowerSeq)}
Uppercase == {UpperSeq[i] : i \in 1..Len(UpperSeq)}
Alphanumeric == Lowercase \cup Uppercase \cup Digits

\* char::to_lowercase on the letters above
LowerOf ==
    [c \in Uppercase |-> LowerSeq[CHOOSE i \in 1..Len(UpperSeq) : UpperSeq[i] = c]]

is_lowercase(c) == c \in Lowercase
is_uppercase(c) == c \in Uppercase
is_alphanumeric(c) == c \in Alphanumeric

to_lowercase_char(c) == IF is_uppercase(c) THEN LowerOf[c] ELSE c

to_lowercase(w) == [i \in 1..Len(w) |-> to_lowercase_char(w[i])]

\* one finished word joins the output: "_" between words, the word lowercased
snake_word(out, w) ==
    IF w = <<>> THEN out
    ELSE IF out = <<>> THEN to_lowercase(w)
    ELSE out \o <<"_">> \o to_lowercase(w)

\* heck's scan.  mode is the case of the letters read since the last word
\* boundary ("boundary", "lower", "upper"); cur is the word being collected.
RECURSIVE snake_scan(_, _, _, _, _)
snake_scan(s, i, mode, cur, out) ==
    IF i > Len(s) THEN snake_word(out, cur)
    ELSE LET c == s[i] IN
      IF ~is_alphanumeric(c)
      THEN snake_scan(s, i + 1, "boundary", <<>>, snake_word(out, cur))
      ELSE IF i < Len(s) /\ is_alphanumeric(s[i + 1])
      THEN LET next == s[i + 1]
               next_mode == IF is_lowercase(c) THEN "lower"
                            ELSE IF is_uppercase(c) THEN "upper"
                            ELSE mode
           IN IF next_mode = "lower" /\ is_uppercase(next)
              THEN snake_scan(s, i + 1, "boundary", <<>>,
                              snake_word(out, Append(cur, c)))
              ELSE IF mode = "upper" /\ is_uppercase(c) /\ is_lowercase(next)
              THEN snake_scan(s, i + 1, "boundary", <<c>>, snake_word(out, cur))
              ELSE snake_scan(s, i + 1, next_mode, Append(cur, c), out)
      ELSE snake_scan(s, i + 1, "boundary", <<>>, snake_word(out, Append(cur, c)))

to_snake_case(s) == snake_scan(s, 1, "boundary", <<>>, <<>>)

(***************************************************************************)
(* str::lines and str::trim, as Markdown::docs uses them.                  *)
(***************************************************************************)
is_whitespace(c) == c \in {" ", "\t", "\r"}

RECURSIVE trim_start(_)
trim_start(s) ==
    IF s # <<>> /\ is_whitespace(Head(s)) THEN trim_start(Tail(s)) ELSE s

RECURSIVE trim_end(_)
trim_end(s) ==
    IF s # <<>> /\ is_whitespace(s[Len(s)])
    THEN trim_end(SubSeq(s, 1, Len(s) - 1))
    ELSE s

trim(s) == trim_end(trim_start(s))

\* the lines of s: split at "\n"; a final "\n" ends the last line and opens
\* no empty one
RECURSIVE lines_from(_, _, _, _)
lines_from(s, i, cur, out) ==
    IF i > Len(s) THEN (IF cur = <<>> THEN out ELSE Append(out, cur))
    ELSE IF s[i] = "\n" THEN lines_from(s, i + 1, <<>>, Append(out, cur))
    ELSE lines_from(s, i + 1, Append(cur, s[i]), out)

lines(s) == lines_from(s, 1, <<>>, <<>>)

(***************************************************************************)
(* wit_parser's data: Type, TypeDef, TypeDefKind, Function, Interface.     *)
(* A TypeId or ResourceId is the 1-based position in its table.            *)
(***************************************************************************)
Prim(tag) == [tag |-> tag]
Handle(r) == [tag |-> "Handle", id |-> r]
Id(i) == [tag |-> "Id", id |-> i]

Docs(contents) == [contents |-> contents]
NoDocs == Docs(None)

TypeDef(name, kind, docs) == [name |-> name, kind |-> kind, docs |-> docs]

\* the output pieces
Lit(s) == [k |-> "lit", s |-> s]
Code(s) == [k |-> "code", s |-> s]
Text(n) == [k |-> "text", n |-> n]
CodeName(n) == [k |-> "codename", n |-> n]
Num(v) == [k |-> "num", v |-> v]
Anchor(href, name) == [k |-> "anchor", href |-> href, name |-> name]
Link(text, target) == [k |-> "link", text |-> text, target |-> target]
EntryLink(text, target) == [k |-> "entrylink", text |-> text, target |-> target]

\* the literal print_ty pushes, between backticks, for each primitive Type
PrimLiteral ==
    [Unit |-> "unit", Bool |-> "bool", U8 |-> "u8", S8 |-> "s8",
     U16 |-> "u16", S16 |-> "s16", U32 |-> "u32", S32 |-> "s32",
     U64 |-> "u64", S64 |-> "s64", Float32 |-> "float32",
     Float64 |-> "float64", Char |-> "char", String |-> "string"]

(***************************************************************************)
(* The Markdown value and its low-level mutations.                         *)
(***************************************************************************)
EmptyMap == [key \in {} |-> <<>>]

\* no Markdown value has been constructed yet
NoMarkdown ==
    [src |-> <<>>, sizes |-> EmptyMap, hrefs |-> EmptyMap,
     funcs |-> 0, types |-> 0, panic |-> "none"]

\* a Markdown value kept from the pass before, only its text and map cleared
StaleMarkdown == [md EXCEPT !.src = <<>>, !.hrefs = EmptyMap]

\* Options::render_file: let mut markdown = Markdown { ... }
NewMarkdown ==
    [src |-> <<>>, sizes |-> EmptyMap, hrefs |-> EmptyMap,
     funcs |-> 0, types |-> 0, panic |-> "none"]

running(self) == self.panic = "none"

\* panic!: the statement that panics and all later ones of the pass have no
\* effect
raise(self, why) ==
    IF running(self) THEN [self EXCEPT !.panic = why] ELSE self

\* self.src.push_str(..)
push(self, piece) ==
    IF running(self) THEN [self EXCEPT !.src = Append(@, piece)] ELSE self

\* self.hrefs.insert(key, value)
insert(self, key, value) ==
    IF running(self)
    THEN [self EXCEPT !.hrefs =
            [q \in (DOMAIN self.hrefs) \cup {key} |->
                IF q = key THEN value ELSE self.hrefs[q]]]
    ELSE self

\* self.sizes.fill(iface): the layout calculator's answers for this Interface
fill(self, layout) ==
    IF running(self) THEN [self EXCEPT !.sizes = layout] ELSE self

\* Markdown::docs
RECURSIVE docs_lines(_, _, _)
docs_lines(self, ls, i) ==
    IF i > Len(ls) THEN self
    ELSE docs_lines(push(push(push(self, Lit("  ")), Text(trim(ls[i]))), Lit("\n")),
                    ls, i + 1)

docs(self, d) ==
    IF ~d.contents.some THEN self
    ELSE docs_lines(self, lines(d.contents.v), 1)

(***************************************************************************)
(* Markdown::print_ty                                                      *)
(***************************************************************************)
\* a link whose target is the name as declared, not its snake form
link_target_unconverted(name) == <<"#">> \o name

\* the target of the link print_ty writes for a named type
link_target(name) == <<"#">> \o to_snake_case(name)

\* a print_ty that registers the type it links to
print_link_registering(self, name) ==
    insert(push(self, Link(name, link_target(name))), name, link_target(name))

\* print_ty, the arm for a named type: a Markdown link, the name as its text
print_link(self, name) == push(self, Link(name, link_target(name)))

RECURSIVE print_ty(_, _, _, _, _)
RECURSIVE print_list_of_types(_, _, _, _, _)
RECURSIVE print_record_fields(_, _, _, _, _)
RECURSIVE print_union_cases(_, _, _, _, _)
RECURSIVE print_names(_, _, _)

\* for (i, f) in t.types.iter().enumerate(): ", " between, print_ty each
print_list_of_types(self, g, types, i, depth) ==
    IF i > Len(types) THEN self
    ELSE LET s1 == IF i > 1 THEN push(self, Lit(", ")) ELSE self
         IN print_list_of_types(print_ty(s1, g, types[i], FALSE, depth),
                                g, types, i + 1, depth)

\* for (i, f) in record.fields.iter().enumerate(): "name: " and the type
print_record_fields(self, g, fields, i, depth) ==
    IF i > Len(fields) THEN self
    ELSE LET s1 == IF i > 1 THEN push(self, Lit(", ")) ELSE self
             s2 == push(push(s1, Text(fields[i].name)), Lit(": "))
         IN print_record_fields(print_ty(s2, g, fields[i].ty, FALSE, depth),
                                g, fields, i + 1, depth)

\* for (i, f) in union.cases.iter().enumerate(): the payload types
print_union_cases(self, g, cases, i, depth) ==
    IF i > Len(cases) THEN self
    ELSE LET s1 == IF i > 1 THEN push(self, Lit(", ")) ELSE self
         IN print_union_cases(print_ty(s1, g, cases[i].ty, FALSE, depth),
                              g, cases, i + 1, depth)

\* flags<..> and enum<..>: the member names, ", " between
print_names(self, members, i) ==
    IF i > Len(members) THEN self
    ELSE LET s1 == IF i > 1 THEN push(self, Lit(", ")) ELSE self
         IN print_names(push(s1, Text(members[i].name)), members, i + 1)

\* print_ty, match &ty.kind: the structural form of a type definition
print_kind(self, g, kind, depth) ==
    CASE kind.k = "Type" -> print_ty(self, g, kind.t, FALSE, depth)
      [] kind.k = "Tuple" ->
            push(print_list_of_types(push(self, Lit("(")), g, kind.types, 1, depth),
                 Lit(")"))
      [] kind.k = "Option" ->
            push(print_ty(push(self, Lit("option<")), g, kind.t, FALSE, depth),
                 Lit(">"))
      [] kind.k = "Expected" ->
            LET s1 == print_ty(push(self, Lit("expected<")), g, kind.ok, FALSE, depth)
                s2 == print_ty(push(s1, Lit(", ")), g, kind.err, FALSE, depth)
            IN push(s2, Lit(">"))
      [] kind.k = "Variant" -> raise(self, "unreachable")
      [] kind.k = "List" ->
            IF kind.t = Prim("Char") THEN push(self, Code("string"))
            ELSE push(print_ty(push(self, Lit("list<")), g, kind.t, FALSE, depth),
                      Lit(">"))
      [] kind.k = "Record" ->
            push(print_record_fields(push(self, Lit("record<")), g, kind.fields, 1, depth),
                 Lit(">"))
      [] kind.k = "Flags" ->
            push(print_names(push(self, Lit("flags<")), kind.flags, 1), Lit(">"))
      [] kind.k = "Enum" ->
            push(print_names(push(self, Lit("enum<")), kind.cases, 1), Lit(">"))
      [] kind.k = "Union" ->
            push(print_union_cases(push(self, Lit("union<")), g, kind.cases, 1, depth),
                 Lit(">"))
      [] kind.k = "Future" ->
            push(print_ty(push(self, Lit("future<")), g, kind.t, FALSE, depth),
                 Lit(">"))
      [] kind.k = "Stream" ->
            LET s1 == print_ty(push(self, Lit("stream<")), g, kind.element, FALSE, depth)
                s2 == print_ty(push(s1, Lit(", ")), g, kind.end, FALSE, depth)
            IN push(s2, Lit(">"))

\* a print_ty that expands a named type where it should write its link
print_ty_expanding_names(self, g, ty, skip_name, depth) ==
    IF ~running(self) THEN self
    ELSE IF depth > StackLimit THEN raise(self, "stack overflow")
    ELSE IF ty.tag \in DOMAIN PrimLiteral THEN push(self, Code(PrimLiteral[ty.tag]))
    ELSE IF ty.tag = "Handle"
    THEN LET s1 == push(self, Lit("handle<"))
         IN IF ty.id \notin 1..Len(g.resources)
            THEN raise(s1, "unknown resource")
            ELSE push(push(s1, Text(g.resources[ty.id].name)), Lit(">"))
    ELSE IF ty.id \notin 1..Len(g.types) THEN raise(self, "unresolved type")
    ELSE print_kind(self, g, g.types[ty.id].kind, depth + 1)

\* depth is the number of print_ty frames on the stack, this one included
print_ty(self, g, ty, skip_name, depth) ==
    IF ~running(self) THEN self
    ELSE IF depth > StackLimit THEN raise(self, "stack overflow")
    ELSE IF ty.tag \in DOMAIN PrimLiteral THEN push(self, Code(PrimLiteral[ty.tag]))
    ELSE IF ty.tag = "Handle"
    THEN LET s1 == push(self, Lit("handle<"))
         IN IF ty.id \notin 1..Len(g.resources)
            THEN raise(s1, "unknown resource")
            ELSE push(push(s1, Text(g.resources[ty.id].name)), Lit(">"))
    ELSE IF ty.id \notin 1..Len(g.types) THEN raise(self, "unresolved type")
    ELSE LET def == g.types[ty.id] IN
         IF ~skip_name /\ def.name.some
         THEN print_link(self, def.name.v)
         ELSE print_kind(self, g, def.kind, depth + 1)

(***************************************************************************)
(* The section renderers.                                                  *)
(***************************************************************************)
\* a banner before every type header
types_banner_always(self) == TRUE

\* print_type_header: if self.types == 0
types_banner_due(self) == self.types = 0

\* the value print_type_header registers for a type name
header_href(name) == <<"#">> \o to_snake_case(name)

\* Markdown::print_type_header
print_type_header(self, name) ==
    LET s1 == IF types_banner_due(self) THEN push(self, Lit("# Types\n\n")) ELSE self
        s2 == IF running(s1) THEN [s1 EXCEPT !.types = @ + 1] ELSE s1
        s3 == push(s2, Lit("## "))
        s4 == push(s3, Anchor(<<"#">> \o to_snake_case(name), to_snake_case(name)))
        s5 == push(push(push(s4, Lit(" ")), CodeName(name)), Lit(": "))
    IN insert(s5, name, header_href(name))

\* a print_type_info that prints the alignment where the size belongs
print_type_info_align_twice(self, ty, d) ==
    LET s1 == push(docs(self, d), Lit("\n"))
        s2 == push(push(push(s1, Lit("Size: ")), Num(self.sizes[ty].align)), Lit(", "))
    IN push(push(push(s2, Lit("Alignment: ")), Num(self.sizes[ty].align)), Lit("\n"))

\* Markdown::print_type_info
print_type_info(self, ty, d) ==
    LET s1 == push(docs(self, d), Lit("\n"))
        s2 == push(push(push(s1, Lit("Size: ")), Num(self.sizes[ty].size)), Lit(", "))
    IN push(push(push(s2, Lit("Alignment: ")), Num(self.sizes[ty].align)), Lit("\n"))

\* the anchor of a member: snake(type) "." snake(member)
member_anchor(name, member) ==
    to_snake_case(name) \o <<".">> \o to_snake_case(member)

\* the key of a member in hrefs: format!("{}::{}", name, member)
member_key(name, member) == name \o <<":", ":">> \o member

\* the list entry of a record field, a flag, a variant case or an enum case:
\* "- ", the anchor tag (its href is written without "#"), the entry link
member_entry(self, name, member) ==
    LET s1 == push(self, Lit("- "))
        s2 == push(s1, Anchor(member_anchor(name, member), member_anchor(name, member)))
        s3 == push(s2, Lit(" "))
    IN push(s3, EntryLink(member, <<"#">> \o member_anchor(name, member)))

\* self.hrefs.insert(format!("{}::{}", ..), format!("#{}.{}", ..))
member_insert(self, name, member) ==
    insert(self, member_key(name, member), <<"#">> \o member_anchor(name, member))

\* type_record: for field in record.fields.iter()
RECURSIVE record_fields(_, _, _, _, _)
record_fields(self, g, name, fields, i) ==
    IF i > Len(fields) THEN self
    ELSE LET f == fields[i]
             s1 == push(member_entry(self, name, f.name), Lit(": "))
             s2 == member_insert(s1, name, f.name)
             s3 == push(print_ty(s2, g, f.ty, FALSE, 1), Lit("\n\n"))
             s4 == push(docs(s3, f.docs), Lit("\n"))
         IN record_fields(s4, g, name, fields, i + 1)

\* Markdown::type_record
type_record(self, g, id, name, record, d) ==
    LET s1 == push(print_type_header(self, name), Lit("record\n\n"))
        s2 == push(print_type_info(s1, id, d), Lit("\n### Record Fields\n\n"))
    IN record_fields(s2, g, name, record.fields, 1)

\* type_tuple: for field in tuple.types.iter()
RECURSIVE tuple_types(_, _, _, _)
tuple_types(self, g, types, i) ==
    IF i > Len(types) THEN self
    ELSE tuple_types(push(print_ty(push(self, Lit("- ")), g, types[i], FALSE, 1),
                          Lit("\n")),
                     g, types, i + 1)

\* Markdown::type_tuple
type_tuple(self, g, id, name, tuple, d) ==
    LET s1 == push(print_type_header(self, name), Lit("tuple\n\n"))
        s2 == push(print_type_info(s1, id, d), Lit("\n### Tuple Types\n\n"))
    IN tuple_types(s2, g, tuple.types, 1)

\* a bit index counted from 1
flag_bit_from_one(i) == i

\* the bit index enumerate() gives the flag at (1-based) position i
flag_bit(i) == i - 1

\* type_flags: for (i, field) in record.flags.iter().enumerate()
RECURSIVE flags_fields(_, _, _, _)
flags_fields(self, name, flags, i) ==
    IF i > Len(flags) THEN self
    ELSE LET f == flags[i]
             s1 == member_insert(member_entry(self, name, f.name), name, f.name)
             s2 == docs(push(s1, Lit("\n\n")), f.docs)
             s3 == push(push(push(s2, Lit("Bit: ")), Num(flag_bit(i))), Lit("\n"))
         IN flags_fields(push(s3, Lit("\n")), name, flags, i + 1)

\* Markdown::type_flags
type_flags(self, g, id, name, record, d) ==
    LET s1 == push(print_type_header(self, name), Lit("flags\n\n"))
        s2 == push(print_type_info(s1, id, d), Lit("\n### Flags Fields\n\n"))
    IN flags_fields(s2, name, record.flags, 1)

\* type_variant: for case in variant.cases.iter()
RECURSIVE variant_cases(_, _, _, _, _)
variant_cases(self, g, name, cases, i) ==
    IF i > Len(cases) THEN self
    ELSE LET c == cases[i]
             s1 == member_insert(member_entry(self, name, c.name), name, c.name)
             s2 == print_ty(push(s1, Lit(": ")), g, c.ty, FALSE, 1)
             s3 == push(docs(push(s2, Lit("\n\n")), c.docs), Lit("\n"))
         IN variant_cases(s3, g, name, cases, i + 1)

\* Markdown::type_variant
type_variant(self, g, id, name, variant, d) ==
    LET s1 == push(print_type_header(self, name), Lit("variant\n\n"))
        s2 == push(print_type_info(s1, id, d), Lit("\n### Variant Cases\n\n"))
    IN variant_cases(s2, g, name, variant.cases, 1)

\* type_enum: for case in enum_.cases.iter()
RECURSIVE enum_cases(_, _, _, _)
enum_cases(self, name, cases, i) ==
    IF i > Len(cases) THEN self
    ELSE LET c == cases[i]
             s1 == member_insert(member_entry(self, name, c.name), name, c.name)
             s2 == push(docs(push(s1, Lit("\n\n")), c.docs), Lit("\n"))
         IN enum_cases(s2, name, cases, i + 1)

\* Markdown::type_enum
type_enum(self, g, id, name, enum_, d) ==
    LET s1 == push(print_type_header(self, name), Lit("enum\n\n"))
        s2 == push(print_type_info(s1, id, d), Lit("\n### Enum Cases\n\n"))
    IN enum_cases(s2, name, enum_.cases, 1)

\* type_union: for case in union.cases.iter()
RECURSIVE union_cases(_, _, _, _)
union_cases(self, g, cases, i) ==
    IF i > Len(cases) THEN self
    ELSE LET c == cases[i]
             s1 == print_ty(push(self, Lit("- ")), g, c.ty, FALSE, 1)
             s2 == push(docs(push(s1, Lit("\n\n")), c.docs), Lit("\n"))
         IN union_cases(s2, g, cases, i + 1)

\* Markdown::type_union
type_union(self, g, id, name, union, d) ==
    LET s1 == push(print_type_header(self, name), Lit("union\n\n"))
        s2 == push(print_type_info(s1, id, d), Lit("\n### Union Cases\n\n"))
    IN union_cases(s2, g, union.cases, 1)

\* Markdown::type_option
type_option(self, g, id, name, type_, d) ==
    LET s1 == push(print_type_header(self, name), Lit("option\n\n"))
        s2 == push(print_type_info(s1, id, d), Lit("\n### Option\n\n"))
    IN push(print_ty(push(s2, Lit("- ")), g, type_, FALSE, 1), Lit("\n\n"))

\* Markdown::type_expected
type_expected(self, g, id, name, expected, d) ==
    LET s1 == push(print_type_header(self, name), Lit("expected\n\n"))
        s2 == push(print_type_info(s1, id, d), Lit("\n### Expected\n\n"))
        s3 == push(print_ty(push(s2, Lit("- ok: ")), g, expected.ok, FALSE, 1), Lit("\n"))
    IN push(print_ty(push(s3, Lit("- err: ")), g, expected.err, FALSE, 1), Lit("\n\n"))

\* Markdown::type_future
type_future(self, g, id, name, type_, d) ==
    LET s1 == push(print_type_header(self, name), Lit("future\n\n"))
        s2 == push(print_type_info(s1, id, d), Lit("\n### Future\n\n"))
    IN push(print_ty(push(s2, Lit("- ")), g, type_, FALSE, 1), Lit("\n\n"))

\* Markdown::type_stream
type_stream(self, g, id, name, stream, d) ==
    LET s1 == push(print_type_header(self, name), Lit("stream\n\n"))
        s2 == push(print_type_info(s1, id, d), Lit("\n### Stream\n\n"))
        s3 == push(print_ty(push(s2, Lit("- ok: ")), g, stream.element, FALSE, 1), Lit("\n"))
    IN push(print_ty(push(s3, Lit("- err: ")), g, stream.end, FALSE, 1), Lit("\n\n"))

\* Markdown::type_alias
type_alias(self, g, id, name, ty, d) ==
    LET s1 == print_ty(print_type_header(self, name), g, ty, TRUE, 1)
        s2 == print_type_info(push(s1, Lit("\n\n")), id, d)
    IN push(s2, Lit("\n"))

(***************************************************************************)
(* Markdown::process, the loop over iface.functions.                       *)
(***************************************************************************)
\* if self.funcs == 0
funcs_banner_due(self) == self.funcs = 0

\* for (name, ty) in func.params.iter()
RECURSIVE func_params(_, _, _, _, _)
func_params(self, g, fname, params, i) ==
    IF i > Len(params) THEN self
    ELSE LET p == params[i]
             a == to_snake_case(fname) \o <<".">> \o to_snake_case(p.name)
             s1 == push(push(self, Lit("- ")), Anchor(<<"#">> \o a, a))
             s2 == push(push(push(s1, Lit(" ")), CodeName(p.name)), Lit(": "))
         IN func_params(push(print_ty(s2, g, p.ty, FALSE, 1), Lit("\n")),
                        g, fname, params, i + 1)

\* the body of: for func in iface.functions.iter()
process_function(self, g, func) ==
    LET s1 == IF funcs_banner_due(self) THEN push(self, Lit("# Functions\n\n")) ELSE self
        s2 == IF running(s1) THEN [s1 EXCEPT !.funcs = @ + 1] ELSE s1
        s3 == push(push(s2, Lit("----\n\n")), Lit("#### "))
        s4 == push(s3, Anchor(<<"#">> \o to_snake_case(func.name),
                              to_snake_case(func.name)))
        s5 == insert(s4, func.name, <<"#">> \o to_snake_case(func.name))
        s6 == push(push(push(push(s5, Lit(" ")), CodeName(func.name)), Lit(" ")),
                   Lit("\n\n"))
        s7 == docs(s6, func.docs)
        s8 == IF Len(func.params) > 0
              THEN func_params(push(s7, Lit("##### Params\n\n")), g, func.name,
                               func.params, 1)
              ELSE s7
        s9 == push(push(s8, Lit("##### Result\n\n")), Lit("- "))
    IN push(push(print_ty(s9, g, func.result, FALSE, 1), Lit("\n")), Lit("\n"))

(***************************************************************************)
(* The inputs: the Interfaces a pass may be given, and the layout          *)
(* calculator's answers for them.                                          *)
(***************************************************************************)
Field(name, ty, d) == [name |-> name, ty |-> ty, docs |-> d]
Member(name, d) == [name |-> name, docs |-> d]
UnionCase(ty, d) == [ty |-> ty, docs |-> d]

DocsA == Docs(Some(<<" ", "a", " ", "\n", "b", "\n">>))
DocsB == Docs(Some(<<"c">>))

\* the named type definitions, one of every TypeDefKind
NamedDefs ==
    { TypeDef(Some(<<"p", "-", "t">>),
              [k |-> "Record",
               fields |-> << Field(<<"x">>, Prim("U32"), NoDocs),
                             Field(<<"y", "-", "z">>, Id(2), DocsB) >>],
              DocsA),
      TypeDef(Some(<<"t", "u">>),
              [k |-> "Tuple", types |-> <<Id(1), Prim("Char")>>], NoDocs),
      TypeDef(Some(<<"f", "l">>),
              [k |-> "Flags",
               flags |-> << Member(<<"r">>, DocsB), Member(<<"w", "-", "x">>, NoDocs) >>],
              NoDocs),
      TypeDef(Some(<<"v">>),
              [k |-> "Variant",
               cases |-> << Field(<<"a">>, Prim("Unit"), NoDocs),
                            Field(<<"b", "-", "c">>, Id(1), DocsB) >>],
              NoDocs),
      TypeDef(Some(<<"a", "l">>), [k |-> "Type", t |-> Id(2)], DocsB),
      TypeDef(Some(<<"l", "i">>), [k |-> "List", t |-> Id(1)], NoDocs),
      TypeDef(Some(<<"e", "n">>),
              [k |-> "Enum",
               cases |-> << Member(<<"e">>, NoDocs), Member(<<"f", "-", "g">>, DocsB) >>],
              NoDocs),
      TypeDef(Some(<<"o", "p">>), [k |-> "Option", t |-> Id(2)], NoDocs),
      TypeDef(Some(<<"e", "x">>),
              [k |-> "Expected", ok |-> Id(1), err |-> Prim("U32")], NoDocs),
      TypeDef(Some(<<"u", "n">>),
              [k |-> "Union",
               cases |-> << UnionCase(Prim("U32"), NoDocs), UnionCase(Id(2), DocsB) >>],
              NoDocs),
      TypeDef(Some(<<"f", "u">>), [k |-> "Future", t |-> Id(1)], NoDocs),
      TypeDef(Some(<<"s", "t">>),
              [k |-> "Stream", element |-> Id(2), end |-> Prim("Unit")], DocsB) }

\* anonymous type definitions
AnonymousDefs ==
    { TypeDef(None,
              [k |-> "Variant",
               cases |-> << Field(<<"n">>, Prim("Unit"), NoDocs),
                            Field(<<"y">>, Prim("Unit"), NoDocs) >>],
              NoDocs),
      TypeDef(None,
              [k |-> "Union",
               cases |-> << UnionCase(Prim("Unit"), NoDocs),
                            UnionCase(Id(1), NoDocs) >>],
              NoDocs),
      TypeDef(None, [k |-> "Tuple", types |-> <<Id(2), Handle(1)>>], NoDocs),
      TypeDef(None,
              [k |-> "Expected", ok |-> Handle(2), err |-> Prim("Bool")], NoDocs) }

TypeDefPool == NamedDefs \cup AnonymousDefs

\* the functions an Interface declares are the first few of these
FuncList ==
    << [name |-> <<"g", "e", "t", "-", "x">>,
        params |-> << [name |-> <<"p">>, ty |-> Id(1)],
                      [name |-> <<"q", "-", "r">>, ty |-> Prim("U32")] >>,
        result |-> Id(2), docs |-> DocsB],
       [name |-> <<"f">>, params |-> <<>>, result |-> Handle(1), docs |-> NoDocs],
       [name |-> <<"h">>, params |-> << [name |-> <<"a">>, ty |-> Id(2)] >>,
        result |-> Prim("Unit"), docs |-> NoDocs] >>

ResourceTable == << [name |-> <<"f", "d">>] >>

\* env::args().skip(1): the same .wit.md file, named twice
Args == <<"x.wit.md", "x.wit.md">>

Min(a, b) == IF a < b THEN a ELSE b

TypeTables == UNION { [1..n -> TypeDefPool] : n \in 0..MaxTypes }

Interfaces ==
    { [types |-> ts, functions |-> SubSeq(FuncList, 1, nf), resources |-> ResourceTable] :
        ts \in TypeTables, nf \in 0..Min(MaxFuncs, Len(FuncList)) }

\* SizeAlign's answers for the n types of an Interface, under either of two
\* layouts
Layouts(n) ==
    { [i \in 1..n |-> [size |-> w * i, align |-> w]] : w \in {4} }

(***************************************************************************)
(* The program: main runs render_file once for each file it is given; a   *)
(* pass is Markdown::process, one step for each type and each function.   *)
(***************************************************************************)
Init ==
    /\ iface \in Interfaces
    /\ oracle \in Layouts(Len(iface.types))
    /\ md = NoMarkdown
    /\ pc = "idle"
    /\ tyIdx = 0
    /\ fnIdx = 0
    /\ pass = 0
    /\ outputs = <<>>

\* render_file up to the first iteration of process: a fresh Markdown,
\* self.sizes.fill(iface)
RenderFile ==
    /\ pc = "idle"
    /\ pass < Len(Args)
    /\ md' = fill(NewMarkdown, oracle)
    /\ pc' = "process"
    /\ tyIdx' = 1
    /\ fnIdx' = 1
    /\ pass' = pass + 1
    /\ UNCHANGED <<iface, oracle, outputs>>

InTypes == pc = "process" /\ tyIdx <= Len(iface.types)
CurType == iface.types[tyIdx]
IsKind(kind) == InTypes /\ CurType.name.some /\ CurType.kind.k = kind

\* the section renderer returned, or panicked and ended the process
Advance(self) ==
    /\ md' = self
    /\ IF running(md')
       THEN pc' = pc /\ tyIdx' = tyIdx + 1
       ELSE pc' = "panicked" /\ tyIdx' = tyIdx
    /\ UNCHANGED <<iface, oracle, fnIdx, pass, outputs>>

\* None => continue
SkipAnonymous ==
    /\ InTypes
    /\ ~CurType.name.some
    /\ tyIdx' = tyIdx + 1
    /\ UNCHANGED <<iface, oracle, md, pc, fnIdx, pass, outputs>>

TypeRecord ==
    /\ IsKind("Record")
    /\ Advance(type_record(md, iface, tyIdx, CurType.name.v, CurType.kind, CurType.docs))

TypeTuple ==
    /\ IsKind("Tuple")
    /\ Advance(type_tuple(md, iface, tyIdx, CurType.name.v, CurType.kind, CurType.docs))

TypeFlags ==
    /\ IsKind("Flags")
    /\ Advance(type_flags(md, iface, tyIdx, CurType.name.v, CurType.kind, CurType.docs))

TypeVariant ==
    /\ IsKind("Variant")
    /\ Advance(type_variant(md, iface, tyIdx, CurType.name.v, CurType.kind, CurType.docs))

\* TypeDefKind::Type(t) => self.type_alias(iface, id, name, t, &ty.docs)
TypeAlias ==
    /\ IsKind("Type")
    /\ Advance(type_alias(md, iface, tyIdx, CurType.name.v, CurType.kind.t, CurType.docs))

\* TypeDefKind::List(_) => self.type_alias(iface, id, name, &Type::Id(id), &ty.docs)
TypeList ==
    /\ IsKind("List")
    /\ Advance(type_alias(md, iface, tyIdx, CurType.name.v, Id(tyIdx), CurType.docs))

TypeEnum ==
    /\ IsKind("Enum")
    /\ Advance(type_enum(md, iface, tyIdx, CurType.name.v, CurType.kind, CurType.docs))

TypeOption ==
    /\ IsKind("Option")
    /\ Advance(type_option(md, iface, tyIdx, CurType.name.v, CurType.kind.t, CurType.docs))

TypeExpected ==
    /\ IsKind("Expected")
    /\ Advance(type_expected(md, iface, tyIdx, CurType.name.v, CurType.kind, CurType.docs))

TypeUnion ==
    /\ IsKind("Union")
    /\ Advance(type_union(md, iface, tyIdx, CurType.name.v, CurType.kind, CurType.docs))

TypeFuture ==
    /\ IsKind("Future")
    /\ Advance(type_future(md, iface, tyIdx, CurType.name.v, CurType.kind.t, CurType.docs))

TypeStream ==
    /\ IsKind("Stream")
    /\ Advance(type_stream(md, iface, tyIdx, CurType.name.v, CurType.kind, CurType.docs))

InFuncs ==
    /\ pc = "process"
    /\ tyIdx > Len(iface.types)
    /\ fnIdx <= Len(iface.functions)

\* one iteration of: for func in iface.functions.iter()
Function ==
    /\ InFuncs
    /\ LET self == process_function(md, iface, iface.functions[fnIdx])
       IN /\ md' = self
          /\ IF running(md')
             THEN pc' = pc /\ fnIdx' = fnIdx + 1
             ELSE pc' = "panicked" /\ fnIdx' = fnIdx
    /\ UNCHANGED <<iface, oracle, tyIdx, pass, outputs>>

\* process returned: render_file writes markdown.src to the .abi.md file
WriteFile ==
    /\ pc = "process"
    /\ tyIdx > Len(iface.types)
    /\ fnIdx > Len(iface.functions)
    /\ outputs' = Append(outputs, [src |-> md.src, hrefs |-> md.hrefs])
    /\ pc' = "idle"
    /\ UNCHANGED <<iface, oracle, md, tyIdx, fnIdx, pass>>

Next ==
    \/ RenderFile
    \/ SkipAnonymous
    \/ TypeRecord
    \/ TypeTuple
    \/ TypeFlags
    \/ TypeVariant
    \/ TypeAlias
    \/ TypeList
    \/ TypeEnum
    \/ TypeOption
    \/ TypeExpected
    \/ TypeUnion
    \/ TypeFuture
    \/ TypeStream
    \/ Function
    \/ WriteFile

Spec == Init /\ [][Next]_vars

\* a step of Next can be taken: a pass is under way, or main has a file left
NextEnabled == pc = "process" \/ (pc = "idle" /\ pass < Len(Args))

\* main is one thread that runs each handler to its end and then the next:
\* a step that can be taken is taken.  This is weak fairness of Next, with
\* the enabling condition of Next written out as NextEnabled.
Fairness == []<>(~NextEnabled) \/ []<><<Next>>_vars

FairSpec == Spec /\ Fairness

(***************************************************************************)
(* Reading the output: where the sections and the function blocks are.     *)
(***************************************************************************)
src == md.src

\* the positions of s that hold piece, in order
PositionsOf(s, piece) ==
    SelectSeq([i \in 1..Len(s) |-> i], LAMBDA i : s[i] = piece)

\* the ids of the named types, in declaration order
NamedIds == SelectSeq([i \in 1..Len(iface.types) |-> i],
                      LAMBDA i : iface.types[i].name.some)

\* the named types whose section the current pass has finished
CompletedNamed == SelectSeq(NamedIds, LAMBDA i : i < tyIdx)

\* the named types whose section the current pass has started
StartedNamed ==
    SelectSeq(NamedIds, LAMBDA i : i < tyIdx \/ (i = tyIdx /\ pc = "panicked"))

\* a pass has run to its end and nothing has been rendered since
PassDone == pc = "idle" /\ pass > 0

HeaderPositions == PositionsOf(src, Lit("## "))
RulePositions == PositionsOf(src, Lit("----\n\n"))

\* the last position of the part of src the type sections make up
TypesEnd ==
    LET fb == PositionsOf(src, Lit("# Functions\n\n"))
    IN IF fb # <<>> THEN fb[1] - 1
       ELSE IF RulePositions # <<>> THEN RulePositions[1] - 1
       ELSE Len(src)

\* the pieces of the k-th section: from its header to the next header
Section(k) ==
    SubSeq(src, HeaderPositions[k],
           IF k < Len(HeaderPositions) THEN HeaderPositions[k + 1] - 1 ELSE TypesEnd)

NameOf(id) == iface.types[id].name.v

(***************************************************************************)
(* C1.  Anchor predictability: every link print_ty wrote names a named     *)
(* type T of the Interface and targets "#" followed by the snake form of   *)
(* T; once a pass has run to its end, hrefs maps every named type T to     *)
(* that same string, so every link to T has hrefs[T] as its target.        *)
(***************************************************************************)
C1_AnchorPredictability ==
    /\ \A i \in 1..Len(src) :
          src[i].k = "link" =>
             /\ \E j \in 1..Len(NamedIds) : NameOf(NamedIds[j]) = src[i].text
             /\ src[i].target = <<"#">> \o to_snake_case(src[i].text)
    /\ PassDone =>
          /\ \A j \in 1..Len(NamedIds) :
                /\ NameOf(NamedIds[j]) \in DOMAIN md.hrefs
                /\ md.hrefs[NameOf(NamedIds[j])]
                      = <<"#">> \o to_snake_case(NameOf(NamedIds[j]))
          /\ \A i \in 1..Len(src) :
                src[i].k = "link" =>
                   /\ src[i].text \in DOMAIN md.hrefs
                   /\ src[i].target = md.hrefs[src[i].text]

\* a finished pass whose text links to the type p-t, registered as #p_t
C1_Witness ==
    /\ PassDone
    /\ <<"p", "-", "t">> \in DOMAIN md.hrefs
    /\ md.hrefs[<<"p", "-", "t">>] = <<"#", "p", "_", "t">>
    /\ \E i \in 1..Len(src) :
          src[i] = Link(<<"p", "-", "t">>, <<"#", "p", "_", "t">>)

(***************************************************************************)
(* C2.  Every anchor tag in the output has the shape                       *)
(* <a href="#ANCHOR" name="ANCHOR"></a>: its href is "#" followed by its   *)
(* name attribute.                                                         *)
(***************************************************************************)
C2_AnchorTagShape ==
    \A i \in 1..Len(src) :
       src[i].k = "anchor" => src[i].href = <<"#">> \o src[i].name

(***************************************************************************)
(* The input contract of the data model: every identifier resolves, and    *)
(* no cycle of type references runs through anonymous types only.          *)
(***************************************************************************)
SeqRange(s) == {s[i] : i \in 1..Len(s)}

\* the Types a type definition of this kind refers to
RefsOfKind(kind) ==
    CASE kind.k \in {"Type", "List", "Option", "Future"} -> {kind.t}
      [] kind.k = "Tuple" -> SeqRange(kind.types)
      [] kind.k = "Record" -> {f.ty : f \in SeqRange(kind.fields)}
      [] kind.k \in {"Variant", "Union"} -> {c.ty : c \in SeqRange(kind.cases)}
      [] kind.k = "Expected" -> {kind.ok, kind.err}
      [] kind.k = "Stream" -> {kind.element, kind.end}
      [] kind.k \in {"Flags", "Enum"} -> {}

RefsOfFunction(f) == {q.ty : q \in SeqRange(f.params)} \cup {f.result}

AllRefs(g) ==
    UNION ({RefsOfKind(d.kind) : d \in SeqRange(g.types)}
           \cup {RefsOfFunction(f) : f \in SeqRange(g.functions)})

Resolves(g) ==
    \A r \in AllRefs(g) :
       /\ r.tag = "Id" => r.id \in 1..Len(g.types)
       /\ r.tag = "Handle" => r.id \in 1..Len(g.resources)

\* the anonymous types the definition i refers to directly
AnonSucc(g, i) ==
    {r.id : r \in {q \in RefsOfKind(g.types[i].kind) :
                      /\ q.tag = "Id"
                      /\ q.id \in 1..Len(g.types)
                      /\ ~g.types[q.id].name.some}}

\* the anonymous types reached from the set S in at most n more steps
RECURSIVE AnonReach(_, _, _)
AnonReach(g, S, n) ==
    IF n = 0 THEN S
    ELSE AnonReach(g, S \cup UNION {AnonSucc(g, j) : j \in S}, n - 1)

AnonAcyclic(g) ==
    \A i \in 1..Len(g.types) :
       ~g.types[i].name.some => i \notin AnonReach(g, AnonSucc(g, i), Len(g.types))

WellFormed(g) == Resolves(g) /\ AnonAcyclic(g)

(***************************************************************************)
(* C3.  Bool/option/result normalization: where a function result refers   *)
(* to an anonymous tagged union of two payload-less cases the text is      *)
(* bool, where it refers to one of two cases of which exactly one is       *)
(* payload-less the text is option<T>, and printing such a reference does  *)
(* not abort the render.                                                   *)
(***************************************************************************)
IsTaggedUnion(def) == def.kind.k \in {"Variant", "Union"}

PayloadLess(def) ==
    {i \in 1..Len(def.kind.cases) : def.kind.cases[i].ty = Prim("Unit")}

BoolShaped(def) ==
    IsTaggedUnion(def) /\ Len(def.kind.cases) = 2 /\ Cardinality(PayloadLess(def)) = 2

OptionShaped(def) ==
    IsTaggedUnion(def) /\ Len(def.kind.cases) = 2 /\ Cardinality(PayloadLess(def)) = 1

\* the position of the first piece of the result of the k-th function block
ResultPosition(k) == PositionsOf(src, Lit("##### Result\n\n"))[k] + 2

\* the functions whose block the current pass has finished
CompletedFuncs == IF pc = "idle" /\ pass = 0 THEN 0 ELSE fnIdx - 1

C3_Normalization ==
    \A k \in 1..Len(iface.functions) :
       LET r == iface.functions[k].result IN
       (/\ r.tag = "Id"
        /\ r.id \in 1..Len(iface.types)
        /\ ~iface.types[r.id].name.some
        /\ WellFormed(iface))
       =>
       LET def == iface.types[r.id] IN
       /\ (BoolShaped(def) \/ OptionShaped(def)) /\ fnIdx = k
             /\ tyIdx > Len(iface.types)
             => md.panic # "unreachable"
       /\ BoolShaped(def) /\ k <= CompletedFuncs
             => src[ResultPosition(k)] = Code("bool")
       /\ OptionShaped(def) /\ k <= CompletedFuncs
             => src[ResultPosition(k)] = Lit("option<")

(***************************************************************************)
(* C4.  A render pass aborts only on an input-contract violation: over an  *)
(* Interface in which every identifier resolves no pass panics.  Stated    *)
(* here for the Interfaces in which, besides, no cycle runs through        *)
(* anonymous types only and every variant carries a name.                  *)
(***************************************************************************)
VariantsNamed(g) ==
    \A d \in SeqRange(g.types) : d.kind.k = "Variant" => d.name.some

C4_AbortsOnlyOnContractViolation ==
    pc = "panicked" => ~(WellFormed(iface) /\ VariantsNamed(iface))

(***************************************************************************)
(* C9.  A named type is always referenced by link: the section of an alias *)
(* of another named type U shows, after its header, the link to U, and a   *)
(* function result that is a named type U is the link to U.                *)
(***************************************************************************)
LinkTo(id) == Link(NameOf(id), <<"#">> \o to_snake_case(NameOf(id)))

\* the pieces of a section header: "## ", the anchor, " ", the name, ": "
HeaderLen == Len(<<"## ", "anchor", " ", "name", ": ">>)

C9_NamedTypeByLink ==
    /\ \A k \in 1..Len(StartedNamed) :
          LET id == StartedNamed[k]
              kind == iface.types[id].kind
          IN (/\ kind.k = "Type"
              /\ kind.t.tag = "Id"
              /\ kind.t.id \in 1..Len(iface.types)
              /\ kind.t.id # id
              /\ iface.types[kind.t.id].name.some)
             => /\ Len(Section(k)) > HeaderLen
                /\ Section(k)[HeaderLen + 1] = LinkTo(kind.t.id)
    /\ \A k \in 1..CompletedFuncs :
          LET r == iface.functions[k].result
          IN (/\ r.tag = "Id"
              /\ r.id \in 1..Len(iface.types)
              /\ iface.types[r.id].name.some)
             => src[ResultPosition(k)] = LinkTo(r.id)

(***************************************************************************)
(* C5.  Completeness of sections: the section of a record, variant, union, *)
(* enum or flags type has one list entry for each declared member, in      *)
(* declaration order, and the i-th flag carries the bit index i - 1.       *)
(***************************************************************************)
MembersOf(kind) ==
    CASE kind.k = "Record" -> kind.fields
      [] kind.k = "Flags" -> kind.flags
      [] kind.k \in {"Variant", "Enum", "Union"} -> kind.cases

\* what print_ty writes for ty into an empty buffer
Printed(ty) == print_ty(NoMarkdown, iface, ty, FALSE, 1).src

SectionComplete(sec, kind) ==
    LET entries == PositionsOf(sec, Lit("- "))
        members == MembersOf(kind)
        bits == PositionsOf(sec, Lit("Bit: "))
    IN /\ Len(entries) = Len(members)
       /\ kind.k # "Union" =>
             \A i \in 1..Len(members) :
                /\ sec[entries[i] + 1].k = "anchor"
                /\ sec[entries[i] + 3].k = "entrylink"
                /\ sec[entries[i] + 3].text = members[i].name
       /\ kind.k = "Union" =>
             \A i \in 1..Len(members) :
                SubSeq(sec, entries[i] + 1, entries[i] + Len(Printed(members[i].ty)))
                   = Printed(members[i].ty)
       /\ kind.k = "Flags" =>
             /\ Len(bits) = Len(members)
             /\ \A i \in 1..Len(members) :
                   /\ sec[bits[i] + 1] = Num(i - 1)
                   /\ entries[i] < bits[i]
                   /\ i < Len(members) => bits[i] < entries[i + 1]
       /\ kind.k # "Flags" => bits = <<>>

C5_SectionsComplete ==
    \A k \in 1..Len(CompletedNamed) :
       LET kind == iface.types[CompletedNamed[k]].kind
       IN kind.k \in {"Record", "Flags", "Variant", "Enum", "Union"}
             => SectionComplete(Section(k), kind)

KindOfSection(k) == iface.types[CompletedNamed[k]].kind.k

\* a finished pass that rendered a flags type and a union type
C5_Witness ==
    /\ PassDone
    /\ Len(CompletedNamed) = 2
    /\ KindOfSection(1) = "Flags"
    /\ KindOfSection(2) = "Union"
    /\ Len(PositionsOf(Section(1), Lit("Bit: "))) = 2
    /\ Len(PositionsOf(Section(2), Lit("- "))) = 2

(***************************************************************************)
(* C6.  Banners: the text holds "# Types" at most once, exactly when a     *)
(* type header has been written, and then right before the first header;   *)
(* it holds "# Functions" at most once, exactly when a function block has  *)
(* been written, and then right before the first block.  A header is       *)
(* written for each named type rendered and a block for each function, so  *)
(* a finished pass has the banner exactly when the Interface has a named   *)
(* type, or a function.                                                    *)
(***************************************************************************)
TypesBanners == PositionsOf(src, Lit("# Types\n\n"))
FuncsBanners == PositionsOf(src, Lit("# Functions\n\n"))

C6_Banners ==
    /\ Len(TypesBanners) = (IF HeaderPositions # <<>> THEN 1 ELSE 0)
    /\ HeaderPositions # <<>> => TypesBanners[1] = HeaderPositions[1] - 1
    /\ Len(HeaderPositions) = Len(StartedNamed)
    /\ Len(FuncsBanners) = (IF RulePositions # <<>> THEN 1 ELSE 0)
    /\ RulePositions # <<>> => FuncsBanners[1] = RulePositions[1] - 1
    /\ PassDone =>
          /\ Len(TypesBanners) = (IF NamedIds # <<>> THEN 1 ELSE 0)
          /\ Len(FuncsBanners) = (IF iface.functions # <<>> THEN 1 ELSE 0)
          /\ Len(RulePositions) = Len(iface.functions)

\* a finished pass over an anonymous type, then a named type, and two
\* functions
C6_Witness ==
    /\ PassDone
    /\ Len(iface.types) = 2
    /\ ~iface.types[1].name.some
    /\ Len(HeaderPositions) = 1
    /\ Len(RulePositions) = 2
    /\ Len(TypesBanners) = 1
    /\ Len(FuncsBanners) = 1

(***************************************************************************)
(* C7.  Size/alignment pass-through: every finished section of a named     *)
(* type T holds exactly one line "Size: n, Alignment: m", n and m the      *)
(* layout calculator's size and alignment of T, right after the            *)
(* documentation of T; no other such line is in the text.                  *)
(***************************************************************************)
SizeLine(id) ==
    << Lit("Size: "), Num(oracle[id].size), Lit(", "),
       Lit("Alignment: "), Num(oracle[id].align), Lit("\n") >>

DocBlock(d) == docs(NoMarkdown, d).src \o <<Lit("\n")>>

C7_SizeAlign ==
    /\ \A k \in 1..Len(CompletedNamed) :
          LET sec == Section(k)
              at == PositionsOf(sec, Lit("Size: "))
              def == iface.types[CompletedNamed[k]]
          IN /\ Len(at) = 1
             /\ SubSeq(sec, at[1], at[1] + 5) = SizeLine(CompletedNamed[k])
             /\ Len(PositionsOf(sec, Lit("Alignment: "))) = 1
             /\ at[1] > Len(DocBlock(def.docs))
             /\ SubSeq(sec, at[1] - Len(DocBlock(def.docs)), at[1] - 1)
                   = DocBlock(def.docs)
    /\ Len(PositionsOf(src, Lit("Size: "))) <= Len(StartedNamed)
    /\ Len(PositionsOf(src, Lit("Size: "))) >= Len(CompletedNamed)
    /\ \A i \in 1..Len(src) :
          src[i] = Lit("Size: ") => i > HeaderPositions[1] /\ i <= TypesEnd

\* a finished pass with an alias section, documented, and an anonymous
\* tuple expanded inline
C7_Witness ==
    /\ PassDone
    /\ \E k \in 1..Len(CompletedNamed) :
          /\ KindOfSection(k) = "Type"
          /\ iface.types[CompletedNamed[k]].docs.contents.some
    /\ \E i \in 1..Len(src) : src[i] = Lit("(")
    /\ Len(NamedIds) < Len(iface.types)
    /\ Len(PositionsOf(src, Lit("Size: "))) = Len(NamedIds)

(***************************************************************************)
(* C8.  Determinism: the passes of one run over the same Interface write   *)
(* the same text and the same anchor map.                                  *)
(***************************************************************************)
C8_Determinism ==
    \A i, j \in 1..Len(outputs) : outputs[i] = outputs[j]

\* two passes have finished, with both banners and a non-empty map
C8_Witness ==
    /\ Len(outputs) = 2
    /\ TypesBanners # <<>>
    /\ FuncsBanners # <<>>
    /\ outputs[2].src = src
    /\ DOMAIN outputs[2].hrefs # {}

(***************************************************************************)
(* C10.  Frame of print_ty: a call of print_ty, for any type reference and *)
(* either value of skip_name, on the Markdown value of any reachable state *)
(* leaves hrefs, sizes and both counters as they are and only appends to   *)
(* src; within a pass hrefs only grows, by keys of the type or function    *)
(* being rendered: its name, or name::member for a field, flag or case.    *)
(***************************************************************************)
IsPrefix(a, b) == Len(a) <= Len(b) /\ SubSeq(b, 1, Len(a)) = a

ProbeTypes ==
    {Prim("U32")}
       \cup {Id(i) : i \in 1..(Len(iface.types) + 1)}
       \cup {Handle(r) : r \in 1..(Len(iface.resources) + 1)}

FrameKept(before, after) ==
    /\ after.hrefs = before.hrefs
    /\ after.sizes = before.sizes
    /\ after.types = before.types
    /\ after.funcs = before.funcs
    /\ IsPrefix(before.src, after.src)

PrintTyFrame ==
    \A ty \in ProbeTypes : \A skip_name \in BOOLEAN : \A depth \in {1, StackLimit} :
       FrameKept(md, print_ty(md, iface, ty, skip_name, depth))

\* the keys the step that renders the current type or function may insert
EntityKeys ==
    IF InTypes /\ CurType.name.some
    THEN {CurType.name.v}
            \cup (IF CurType.kind.k \in {"Record", "Flags", "Variant", "Enum"}
                  THEN {member_key(CurType.name.v, m.name) :
                           m \in SeqRange(MembersOf(CurType.kind))}
                  ELSE {})
    ELSE IF InFuncs THEN {iface.functions[fnIdx].name}
    ELSE {}

RegistryStep ==
    pass' = pass =>
       /\ \A q \in DOMAIN md.hrefs :
             q \in DOMAIN md'.hrefs /\ md'.hrefs[q] = md.hrefs[q]
       /\ (DOMAIN md'.hrefs) \ (DOMAIN md.hrefs) \subseteq EntityKeys

C10_PrintTyFrame == [](PrintTyFrame) /\ [][RegistryStep]_vars

\* a pass is under way, a section with members is in the map, and print_ty
\* of a named type not yet rendered appends its link
C10_Witness ==
    /\ pc = "process"
    /\ \E q \in DOMAIN md.hrefs : Len(q) > 3
    /\ InTypes /\ CurType.name.some
    /\ CurType.name.v \notin DOMAIN md.hrefs
    /\ print_ty(md, iface, Id(tyIdx), FALSE, 1).src = Append(src, LinkTo(tyIdx))

(***************************************************************************)
(* C11.  Termination: on an Interface in which every identifier resolves   *)
(* and every cycle of type references passes through a named type, no      *)
(* call of print_ty recurses without end (the calls type_alias makes with  *)
(* skip_name on included), so a pass that has begun comes to its end; a    *)
(* step of the pass visits the one next type or the one next function,     *)
(* functions after types, and a pass that ran to its end has rendered one  *)
(* section for each named type and one block for each function.            *)
(***************************************************************************)
\* print_ty has not run out of stack
Bottomed == md.panic # "stack overflow"

\* from the state the pass is in, print_ty of any type of the Interface,
\* name link suppressed or not, returns
PrintTyReturns ==
    \A i \in 1..Len(iface.types) : \A skip_name \in BOOLEAN :
       print_ty(md, iface, Id(i), skip_name, 1).panic # "stack overflow"

\* one step of an unfinished pass visits the next type or the next function
VisitStep ==
    (pc = "process" /\ pc' = "process") =>
       \/ InTypes /\ tyIdx' = tyIdx + 1 /\ fnIdx' = fnIdx /\ fnIdx = 1
       \/ InFuncs /\ fnIdx' = fnIdx + 1 /\ tyIdx' = tyIdx

\* what a pass that ran to its end has visited
AllVisited ==
    /\ tyIdx = Len(iface.types) + 1
    /\ fnIdx = Len(iface.functions) + 1
    /\ Len(HeaderPositions) = Len(NamedIds)
    /\ Len(RulePositions) = Len(iface.functions)
    /\ md.types = Len(NamedIds)
    /\ md.funcs = Len(iface.functions)

====
